---- MODULE Spec2Model ----
(***************************************************************************)
(* DoggyDoorbell.ino as a state machine.  One thread of control (setup     *)
(* once, then loop forever); the environment is the serial line, the       *)
(* button pin, the Wi-Fi driver and the HTTP server.  Strings are          *)
(* sequences of one-character strings.                                     *)
(***************************************************************************)
EXTENDS Integers, Sequences, FiniteSets, TLC

VARIABLES
    pc,               \* position of the single thread of control
    inSetup,          \* TRUE until setup() has returned
    store,            \* Preferences namespace "wifi-config": written keys -> value
    activeSSID,       \* String activeSSID
    activePassword,   \* String activePassword
    triggerURL,       \* String triggerURL
    buttonState,      \* bool buttonState
    lastButtonState,  \* bool lastButtonState
    wifiStatus,       \* Wi-Fi driver: "idle", "connecting" or "connected"
    wifiCred,         \* <<ssid, password>> last given to WiFi.begin, or <<>>
    attempts,         \* int attempts of the running connect loop
    serialBuf,        \* bytes received on Serial and not yet read
    caller,           \* who called triggerDoorbell: "menu", "button" or "none"
    loc,              \* locals of the operation in progress
    fx,               \* effects of the operation in progress, in order
    entry,            \* settings as they were when the operation was entered
    written,          \* key -> the last value given to putString
    lastConnect,      \* outcome printed by the last connect loop since boot
    observing,        \* whether the button samples of this run are recorded
    samples,          \* the button samples taken since boot (when observing)
    buttonCalls       \* triggerDoorbell invocations from loop() since boot

vars == <<pc, inSetup, store, activeSSID, activePassword, triggerURL,
          buttonState, lastButtonState, wifiStatus, wifiCred, attempts,
          serialBuf, caller, loc, fx, entry, written, lastConnect,
          observing, samples, buttonCalls>>

----------------------------------------------------------------------------
(* Bounds of the model *)

\* button samples recorded in an observed run
MaxSamples == 6

(* Program constants *)

\* while (... && attempts < 20)
MaxAttempts == 20

----------------------------------------------------------------------------
(* Characters and strings *)

LF == "\n"
CR == "\r"
Digits == {"0", "1", "2", "3", "4", "5", "6", "7", "8", "9"}

DigitVal(c) ==
    CASE c = "0" -> 0 [] c = "1" -> 1 [] c = "2" -> 2 [] c = "3" -> 3
      [] c = "4" -> 4 [] c = "5" -> 5 [] c = "6" -> 6 [] c = "7" -> 7
      [] c = "8" -> 8 [] c = "9" -> 9

HTTP_PREFIX == <<"h", "t", "t", "p", ":", "/", "/">>
HTTPS_PREFIX == <<"h", "t", "t", "p", "s", ":", "/", "/">>
NOT_SET == <<"N", "o", "t", " ", "s", "e", "t">>

\* String::startsWith: false when the prefix is longer, else a comparison of
\* the first Len(prefix) characters
startsWith(s, prefix) ==
    /\ Len(s) >= Len(prefix)
    /\ SubSeq(s, 1, Len(prefix)) = prefix

RECURSIVE ParseDigits(_, _)
ParseDigits(s, acc) ==
    IF s = <<>> \/ Head(s) \notin Digits
    THEN acc
    ELSE ParseDigits(Tail(s), acc * 10 + DigitVal(Head(s)))

RECURSIVE SkipSpace(_)
SkipSpace(s) ==
    IF s # <<>> /\ Head(s) \in {" ", "\t"} THEN SkipSpace(Tail(s)) ELSE s

\* String::toInt is atol on the buffer: leading white space, an optional
\* sign, then the longest run of digits; 0 when there is none
toInt(s) ==
    LET t == SkipSpace(s) IN
    IF t # <<>> /\ Head(t) = "-" THEN 0 - ParseDigits(Tail(t), 0)
    ELSE IF t # <<>> /\ Head(t) = "+" THEN ParseDigits(Tail(t), 0)
    ELSE ParseDigits(t, 0)

----------------------------------------------------------------------------
(* The serial line *)

\* readSerialTimeout over the bytes that are in the receive buffer or arrive
\* before the deadline, in order: out is the String returned, rest the bytes
\* left unread, timedOut tells which of the two returns was taken
RECURSIVE readLoop(_, _)
readLoop(input, stream) ==
    IF stream = <<>>
    THEN [out |-> input, rest |-> <<>>, timedOut |-> TRUE]
    ELSE IF Head(stream) = LF \/ Head(stream) = CR
         THEN IF Len(input) > 0
              THEN [out |-> input, rest |-> Tail(stream), timedOut |-> FALSE]
              ELSE readLoop(input, Tail(stream))
         ELSE readLoop(Append(input, Head(stream)), Tail(stream))

readSerialTimeout(stream) == readLoop(<<>>, stream)

Line(s) == Append(s, LF)

\* what the operator may send while the menu prompt is shown
MenuInputs ==
    { <<>>, Line(<<"1">>), Line(<<"2">>), Line(<<"3">>), Line(<<"4">>),
      Line(<<"5">>), Line(<<"x">>), <<LF>>, <<"4", CR, LF>>,
      <<"2", LF, "1", LF>> }

\* ... while the list of networks is shown
SelectionInputs ==
    { <<>>, Line(<<"0">>), Line(<<"1">>), Line(<<"2">>), Line(<<"3">>),
      Line(<<"4">>), Line(<<"-", "1">>), Line(<<"x">>), Line(<<"2", "x">>),
      <<"2">> }

\* ... while the password is asked for
PasswordInputs == { <<>>, Line(<<"p">>), <<"q">>, <<LF>> }

\* ... while the trigger URL is asked for
UrlInputs ==
    { <<>>,
      Line(HTTP_PREFIX \o <<"a">>),
      Line(HTTPS_PREFIX),
      Line(<<"f", "t", "p", ":", "/", "/", "a">>),
      Line(<<"h", "t", "t", "p", ":", "/", "a">>),
      HTTP_PREFIX \o <<"b">> }

\* the bytes that arrive while the program waits: the operator types one of
\* the inputs once everything sent before has been read
Arrivals(inputs) ==
    IF serialBuf = <<>> THEN inputs ELSE { <<>> }

----------------------------------------------------------------------------
(* The Preferences store *)

\* a read that misses what is stored
getStringDefault(st, key, default) == default

\* Preferences::getString(key, defaultValue)
getString(st, key, default) ==
    IF key \in DOMAIN st THEN st[key] ELSE default

\* Preferences::putString(key, value)
putString(st, key, value) ==
    [k \in DOMAIN st \cup {key} |-> IF k = key THEN value ELSE st[k]]

EmptyStore == [k \in {} |-> <<>>]

----------------------------------------------------------------------------
(* The Wi-Fi driver and the access points in range *)

SSID_A == <<"A">>
SSID_B == <<"B">>
SSID_C == <<"C">>

\* results of WiFi.scanNetworks(): n is the value returned (negative when the
\* scan failed), ssids what WiFi.SSID(i) gives for 0 <= i < n
ScanResults ==
    { [n |-> 0, ssids |-> <<>>],
      [n |-> 1, ssids |-> <<SSID_A>>],
      [n |-> 3, ssids |-> <<SSID_A, SSID_B, SSID_C>>],
      [n |-> -2, ssids |-> <<>>] }

\* codes HTTPClient::GET() may return
HttpCodes == { -1, 0, 200, 404, 500 }

----------------------------------------------------------------------------
(* The state *)

NoLoc ==
    [ choice |-> <<>>, scan |-> <<>>, newSSID |-> <<>>, newPassword |-> <<>>,
      newURL |-> <<>>, statusAtCall |-> <<>>, httpURL |-> <<>>,
      codes |-> <<>>, reads |-> <<>>, shown |-> <<>> ]

\* the settings, as an operation finds them
Snapshot ==
    [ store |-> store, activeSSID |-> activeSSID,
      activePassword |-> activePassword, triggerURL |-> triggerURL,
      lastButtonState |-> lastButtonState, wifiCred |-> wifiCred ]

\* the state after construction of the globals, the store as given
Boot(st, obs) ==
    /\ pc = "setup"
    /\ inSetup = TRUE
    /\ store = st
    /\ written = st
    /\ activeSSID = <<>>
    /\ activePassword = <<>>
    /\ triggerURL = <<>>
    /\ buttonState = FALSE
    /\ lastButtonState = FALSE
    /\ wifiStatus = "idle"
    /\ wifiCred = <<>>
    /\ attempts = 0
    /\ serialBuf = <<>>
    /\ caller = "none"
    /\ loc = NoLoc
    /\ fx = <<>>
    /\ entry = <<>>
    /\ lastConnect = "none"
    /\ observing = obs
    /\ samples = <<>>
    /\ buttonCalls = 0

Init == Boot(EmptyStore, FALSE)

\* a connect at every start
hasCredentialsAlways(ssid) == TRUE

\* if (activeSSID.length() > 0)
hasCredentials(ssid) == Len(ssid) > 0

\* setup(): load the settings and, with a stored SSID, start to connect
Setup ==
    /\ pc = "setup"
    /\ LET ssid == getString(store, "ssid", <<>>)
           pass == getString(store, "password", <<>>)
           load == <<"prefs_begin_ro", "get_ssid", "get_password", "get_url",
                     "prefs_end">>
       IN  /\ activeSSID' = ssid
           /\ activePassword' = pass
           /\ triggerURL' = getString(store, "trigger-url", <<>>)
           /\ IF hasCredentials(ssid)
              THEN /\ wifiStatus' = "connecting"
                   /\ wifiCred' = <<ssid, pass>>
                   /\ fx' = load \o <<"wifi_mode", "wifi_begin">>
                   /\ pc' = "setup_poll"
              ELSE /\ UNCHANGED <<wifiStatus, wifiCred>>
                   /\ fx' = load
                   /\ pc' = "menu"
    /\ attempts' = 0
    /\ entry' = <<Snapshot>>
    /\ UNCHANGED <<inSetup, store, buttonState, lastButtonState, serialBuf,
                   caller, loc, written, lastConnect, observing, samples,
                   buttonCalls>>

\* a loop that waits once more than the limit
pollAgainInclusive(status, n) == status # "connected" /\ n <= MaxAttempts

\* while (WiFi.status() != WL_CONNECTED && attempts < 20)
pollAgain(status, n) == status # "connected" /\ n < MaxAttempts

\* one evaluation of the loop condition and, when it holds, the body:
\* delay(500); attempts++
ConnectPoll ==
    /\ pc \in {"setup_poll", "cfg_poll"}
    /\ IF pollAgain(wifiStatus, attempts)
       THEN /\ attempts' = attempts + 1
            /\ pc' = pc
       ELSE /\ attempts' = attempts
            /\ pc' = IF pc = "setup_poll" THEN "setup_report" ELSE "cfg_report"
    /\ UNCHANGED <<inSetup, store, activeSSID, activePassword, triggerURL,
                   buttonState, lastButtonState, wifiStatus, wifiCred,
                   serialBuf, caller, loc, fx, entry, written, lastConnect,
                   observing, samples, buttonCalls>>

\* a failed connect that puts back what the store held before
storeRolledBack(st, before, status) ==
    IF status = "connected" THEN st ELSE before

\* both branches of the report only print: the store stays as it is
storeAfterReport(st, before, status) == st

\* if (WiFi.status() == WL_CONNECTED) ... else ... after the connect loop
ConnectReport ==
    /\ pc \in {"setup_report", "cfg_report"}
    /\ lastConnect' = IF wifiStatus = "connected" THEN "ok" ELSE "failed"
    /\ store' = storeAfterReport(store, entry[1].store, wifiStatus)
    /\ pc' = IF pc = "setup_report" THEN "menu" ELSE "ret"
    /\ UNCHANGED <<inSetup, activeSSID, activePassword, triggerURL,
                   buttonState, lastButtonState, wifiStatus, wifiCred,
                   attempts, serialBuf, caller, loc, fx, entry, written,
                   observing, samples, buttonCalls>>

\* the driver completes the association WiFi.begin started; an access point,
\* once joined, stays in range
WiFiAssociates ==
    /\ wifiStatus = "connecting"
    /\ wifiStatus' = "connected"
    /\ UNCHANGED <<pc, inSetup, store, activeSSID, activePassword, triggerURL,
                   buttonState, lastButtonState, wifiCred, attempts,
                   serialBuf, caller, loc, fx, entry, written, lastConnect,
                   observing, samples, buttonCalls>>

----------------------------------------------------------------------------
(* The operator console *)

\* the cases numbered from 0
menuTargetFromZero(choice) ==
    CASE choice = 0 -> "trigger"
      [] choice = 1 -> "cfg_scan"
      [] choice = 2 -> "cfg_url"
      [] choice = 3 -> "show"
      [] OTHER -> "ret"

\* the prompt repeated until the choice is one of the cases
menuTargetReprompt(choice) ==
    CASE choice = 1 -> "trigger"
      [] choice = 2 -> "cfg_scan"
      [] choice = 3 -> "cfg_url"
      [] choice = 4 -> "show"
      [] OTHER -> "menu"

\* the switch of handleMenu: where control goes for a parsed choice
menuTarget(choice) ==
    CASE choice = 1 -> "trigger"
      [] choice = 2 -> "cfg_scan"
      [] choice = 3 -> "cfg_url"
      [] choice = 4 -> "show"
      [] OTHER -> "ret"

\* handleMenu(): print the prompt, read the choice, dispatch
HandleMenuOn(inputs) ==
    /\ pc = "menu"
    /\ \E a \in Arrivals(inputs) :
         LET r == readSerialTimeout(serialBuf \o a)
             c == toInt(r.out)
         IN  /\ serialBuf' = r.rest
             /\ loc' = [NoLoc EXCEPT !.choice = <<c>>, !.reads = <<r>>]
             /\ pc' = menuTarget(c)
             /\ caller' = IF menuTarget(c) = "trigger" THEN "menu" ELSE "none"
    /\ fx' = <<>>
    /\ entry' = <<Snapshot>>
    /\ UNCHANGED <<inSetup, store, activeSSID, activePassword, triggerURL,
                   buttonState, lastButtonState, wifiStatus, wifiCred,
                   attempts, written, lastConnect, observing, samples,
                   buttonCalls>>

HandleMenu == HandleMenuOn(MenuInputs)

\* the selection used as a 0-based index
selectNetworkZeroBased(sc, selection) ==
    LET networkIndex == toInt(selection) IN
    IF networkIndex >= 0 /\ networkIndex < sc.n
    THEN sc.ssids[networkIndex + 1]
    ELSE <<>>

\* the end of scanAndSelectNetwork: the SSID for what the operator entered
selectNetwork(sc, selection) ==
    LET networkIndex == toInt(selection) - 1 IN
    IF networkIndex >= 0 /\ networkIndex < sc.n
    THEN sc.ssids[networkIndex + 1]
    ELSE <<>>

\* scanAndSelectNetwork() and the test configureWiFi makes of its result
ScanAndSelectNetwork ==
    /\ pc = "cfg_scan"
    /\ \E sc \in ScanResults, a \in Arrivals(SelectionInputs) :
         LET r == readSerialTimeout(serialBuf \o a) IN
         IF sc.n = 0
         THEN /\ a = <<>>
              /\ loc' = [loc EXCEPT !.scan = <<sc>>]
              /\ pc' = "ret"
              /\ UNCHANGED serialBuf
         ELSE LET newSSID == selectNetwork(sc, r.out) IN
              /\ serialBuf' = r.rest
              /\ loc' = [loc EXCEPT !.scan = <<sc>>, !.newSSID = newSSID,
                                    !.reads = Append(@, r)]
              /\ pc' = IF Len(newSSID) = 0 THEN "ret" ELSE "cfg_password"
    /\ fx' = Append(fx, "scan")
    /\ UNCHANGED <<inSetup, store, activeSSID, activePassword, triggerURL,
                   buttonState, lastButtonState, wifiStatus, wifiCred,
                   attempts, caller, entry, written, lastConnect, observing,
                   samples, buttonCalls>>

\* the history of putString calls
Recorded(w, key, value) ==
    [k \in DOMAIN w \cup {key} |-> IF k = key THEN value ELSE w[k]]

\* configureWiFi(): read the password and save the credentials
ConfigureWiFiSave ==
    /\ pc = "cfg_password"
    /\ \E a \in Arrivals(PasswordInputs) :
         LET r == readSerialTimeout(serialBuf \o a)
             newPassword == r.out
         IN  /\ serialBuf' = r.rest
             /\ loc' = [loc EXCEPT !.newPassword = newPassword,
                                   !.reads = Append(@, r)]
             /\ IF Len(newPassword) = 0
                THEN /\ pc' = "ret"
                     /\ UNCHANGED <<store, written, fx>>
                ELSE /\ store' = putString(putString(store, "ssid", loc.newSSID),
                                           "password", newPassword)
                     /\ written' = Recorded(Recorded(written, "ssid", loc.newSSID),
                                            "password", newPassword)
                     /\ fx' = fx \o <<"prefs_begin_rw", "put_ssid",
                                      "put_password", "prefs_end">>
                     /\ pc' = "cfg_connect"
    /\ UNCHANGED <<inSetup, activeSSID, activePassword, triggerURL,
                   buttonState, lastButtonState, wifiStatus, wifiCred,
                   attempts, caller, entry, lastConnect, observing, samples,
                   buttonCalls>>

\* configureWiFi(): WiFi.disconnect(); WiFi.begin(newSSID, newPassword)
ConfigureWiFiConnect ==
    /\ pc = "cfg_connect"
    /\ wifiStatus' = "connecting"
    /\ wifiCred' = <<loc.newSSID, loc.newPassword>>
    /\ fx' = fx \o <<"wifi_disconnect", "wifi_begin">>
    /\ attempts' = 0
    /\ pc' = "cfg_poll"
    /\ UNCHANGED <<inSetup, store, activeSSID, activePassword, triggerURL,
                   buttonState, lastButtonState, serialBuf, caller, loc,
                   entry, written, lastConnect, observing, samples,
                   buttonCalls>>

\* configureTriggerURL without the test of the prefix
urlAcceptedAnyText(newURL) == ~(Len(newURL) = 0)

\* the two tests of configureTriggerURL on the line read
urlAccepted(newURL) ==
    /\ ~(Len(newURL) = 0)
    /\ ~(~startsWith(newURL, HTTP_PREFIX) /\ ~startsWith(newURL, HTTPS_PREFIX))

\* configureTriggerURL()
ConfigureTriggerURL ==
    /\ pc = "cfg_url"
    /\ \E a \in Arrivals(UrlInputs) :
         LET r == readSerialTimeout(serialBuf \o a)
             newURL == r.out
         IN  /\ serialBuf' = r.rest
             /\ loc' = [loc EXCEPT !.newURL = newURL, !.reads = Append(@, r)]
             /\ IF urlAccepted(newURL)
                THEN /\ store' = putString(store, "trigger-url", newURL)
                     /\ written' = Recorded(written, "trigger-url", newURL)
                     /\ triggerURL' = newURL
                     /\ fx' = fx \o <<"prefs_begin_rw", "put_url", "prefs_end">>
                ELSE UNCHANGED <<store, written, triggerURL, fx>>
    /\ pc' = "ret"
    /\ UNCHANGED <<inSetup, activeSSID, activePassword, buttonState,
                   lastButtonState, wifiStatus, wifiCred, attempts, caller,
                   entry, lastConnect, observing, samples, buttonCalls>>

\* showSettings returning before preferences.end()
showEffectsNoEnd == <<"prefs_begin_ro", "get_ssid", "get_url">>

\* showSettings(): its calls on the store, in order
showEffects == <<"prefs_begin_ro", "get_ssid", "get_url", "prefs_end">>

\* showSettings(): what it prints
ShowSettings ==
    /\ pc = "show"
    /\ loc' = [loc EXCEPT !.shown =
                 << [ ssid |-> getString(store, "ssid", NOT_SET),
                      status |-> IF wifiStatus = "connected"
                                 THEN "Connected" ELSE "Disconnected",
                      ip |-> wifiStatus = "connected",
                      url |-> getString(store, "trigger-url", NOT_SET) ] >>]
    /\ fx' = fx \o showEffects
    /\ pc' = "ret"
    /\ UNCHANGED <<inSetup, store, activeSSID, activePassword, triggerURL,
                   buttonState, lastButtonState, wifiStatus, wifiCred,
                   attempts, serialBuf, caller, entry, written, lastConnect,
                   observing, samples, buttonCalls>>

----------------------------------------------------------------------------
(* The webhook trigger *)

\* triggerDoorbell without its connectivity test
wifiReadyUnchecked == TRUE

\* if (WiFi.status() != WL_CONNECTED) return;
wifiReady == wifiStatus = "connected"

\* a call that goes on without a trigger URL
urlReadyUnchecked == TRUE

\* if (triggerURL.length() == 0) return;
urlReady == ~(Len(triggerURL) = 0)

\* a retry on negative codes only
needsRetryNegative(code) == code < 0

\* if (httpResponseCode <= 0): the first GET is retried
needsRetry(code) == code <= 0

\* a return on the error branch that skips http.end()
reportEffectsNoEndOnError(code) ==
    IF code > 0 THEN <<"http_getString", "http_end">> ELSE <<>>

\* if (httpResponseCode > 0) ... else ...; http.end();
reportEffects(code) ==
    IF code > 0 THEN <<"http_getString", "http_end">> ELSE <<"http_end">>

\* where triggerDoorbell returns to
afterTrigger == IF caller = "menu" THEN "ret" ELSE "debounce"

\* triggerDoorbell(): the two tests, http.begin and the first GET
TriggerDoorbell ==
    /\ pc = "trigger"
    /\ buttonCalls' = IF observing /\ caller = "button"
                      THEN buttonCalls + 1 ELSE buttonCalls
    /\ \/ /\ ~wifiReady
          /\ loc' = [loc EXCEPT !.statusAtCall = <<wifiStatus>>]
          /\ pc' = afterTrigger
          /\ UNCHANGED fx
       \/ /\ wifiReady
          /\ ~urlReady
          /\ loc' = [loc EXCEPT !.statusAtCall = <<wifiStatus>>]
          /\ pc' = afterTrigger
          /\ UNCHANGED fx
       \/ /\ wifiReady
          /\ urlReady
          /\ \E code \in HttpCodes :
               /\ loc' = [loc EXCEPT !.statusAtCall = <<wifiStatus>>,
                                     !.httpURL = <<triggerURL>>,
                                     !.codes = <<code>>]
               /\ IF needsRetry(code)
                  THEN /\ fx' = fx \o <<"http_begin", "http_GET">>
                       /\ pc' = "trig_retry"
                  ELSE /\ fx' = fx \o <<"http_begin", "http_GET">>
                                      \o reportEffects(code)
                       /\ pc' = afterTrigger
    /\ UNCHANGED <<inSetup, store, activeSSID, activePassword, triggerURL,
                   buttonState, lastButtonState, wifiStatus, wifiCred,
                   attempts, serialBuf, caller, entry, written, lastConnect,
                   observing, samples>>

\* triggerDoorbell(): delay(50), the second GET, the report and http.end
TriggerRetry ==
    /\ pc = "trig_retry"
    /\ \E code \in HttpCodes :
         /\ loc' = [loc EXCEPT !.codes = Append(@, code)]
         /\ fx' = fx \o <<"http_GET">> \o reportEffects(code)
    /\ pc' = afterTrigger
    /\ UNCHANGED <<inSetup, store, activeSSID, activePassword, triggerURL,
                   buttonState, lastButtonState, wifiStatus, wifiCred,
                   attempts, serialBuf, caller, entry, written, lastConnect,
                   observing, samples, buttonCalls>>

----------------------------------------------------------------------------
(* The event loop *)

\* handleMenu returns, to setup (which returns) or to loop (which returns)
Return ==
    /\ pc = "ret"
    /\ pc' = "loop"
    /\ inSetup' = FALSE
    /\ caller' = "none"
    /\ loc' = NoLoc
    /\ fx' = <<>>
    /\ entry' = <<>>
    /\ UNCHANGED <<store, activeSSID, activePassword, triggerURL,
                   buttonState, lastButtonState, wifiStatus, wifiCred,
                   attempts, serialBuf, written, lastConnect, observing,
                   samples, buttonCalls>>

\* a call on the level instead of the edge
pressedLevel(current, last) == current = TRUE

\* if (buttonState != lastButtonState && buttonState == HIGH)
pressed(current, last) == current # last /\ current = TRUE

\* loop(): sample the button; on a press call triggerDoorbell
LoopButton ==
    /\ pc = "loop"
    /\ observing => Len(samples) < MaxSamples
    /\ \E s \in BOOLEAN :
         /\ buttonState' = s
         /\ samples' = IF observing THEN Append(samples, s) ELSE samples
         /\ IF pressed(s, lastButtonState)
            THEN /\ pc' = "trigger"
                 /\ caller' = "button"
                 /\ entry' = <<Snapshot>>
                 /\ UNCHANGED lastButtonState
            ELSE /\ pc' = "loop_serial"
                 /\ lastButtonState' = s
                 /\ UNCHANGED <<caller, entry>>
    /\ UNCHANGED <<inSetup, store, activeSSID, activePassword, triggerURL,
                   wifiStatus, wifiCred, attempts, serialBuf, loc, fx,
                   written, lastConnect, observing, buttonCalls>>

\* loop(): after the call, delay(100); then lastButtonState = buttonState
LoopDebounce ==
    /\ pc = "debounce"
    /\ lastButtonState' = buttonState
    /\ pc' = "loop_serial"
    /\ caller' = "none"
    /\ loc' = NoLoc
    /\ fx' = <<>>
    /\ entry' = <<>>
    /\ UNCHANGED <<inSetup, store, activeSSID, activePassword, triggerURL,
                   buttonState, wifiStatus, wifiCred, attempts, serialBuf,
                   written, lastConnect, observing, samples, buttonCalls>>

\* a console entered in every iteration
serialAvailableAlways(buf) == TRUE

\* Serial.available(), as a condition
serialAvailable(buf) == Len(buf) > 0

\* loop(): if (Serial.available()) handleMenu();
LoopSerialOn(inputs) ==
    /\ pc = "loop_serial"
    /\ \E a \in Arrivals(inputs) :
         /\ serialBuf' = serialBuf \o a
         /\ pc' = IF serialAvailable(serialBuf') THEN "menu" ELSE "loop"
    /\ UNCHANGED <<inSetup, store, activeSSID, activePassword, triggerURL,
                   buttonState, lastButtonState, wifiStatus, wifiCred,
                   attempts, caller, loc, fx, entry, written, lastConnect,
                   observing, samples, buttonCalls>>

LoopSerial == LoopSerialOn(MenuInputs)

\* a power cycle: the globals are constructed again, the store is kept
Restart ==
    /\ pc # "setup"
    /\ pc' = "setup"
    /\ inSetup' = TRUE
    /\ activeSSID' = <<>>
    /\ activePassword' = <<>>
    /\ triggerURL' = <<>>
    /\ buttonState' = FALSE
    /\ lastButtonState' = FALSE
    /\ wifiStatus' = "idle"
    /\ wifiCred' = <<>>
    /\ attempts' = 0
    /\ serialBuf' = <<>>
    /\ caller' = "none"
    /\ loc' = NoLoc
    /\ fx' = <<>>
    /\ entry' = <<>>
    /\ lastConnect' = "none"
    /\ samples' = <<>>
    /\ buttonCalls' = 0
    /\ UNCHANGED <<store, written, observing>>

Next ==
    \/ Setup
    \/ ConnectPoll
    \/ ConnectReport
    \/ WiFiAssociates
    \/ HandleMenu
    \/ ScanAndSelectNetwork
    \/ ConfigureWiFiSave
    \/ ConfigureWiFiConnect
    \/ ConfigureTriggerURL
    \/ ShowSettings
    \/ TriggerDoorbell
    \/ TriggerRetry
    \/ Return
    \/ LoopButton
    \/ LoopDebounce
    \/ LoopSerial
    \/ Restart

Spec == Init /\ [][Next]_vars

----------------------------------------------------------------------------
(* Runs of a device whose operator tests and inspects but does not          *)
(* reconfigure, with the button samples recorded                           *)

\* a store as menu actions 2 and 3 leave it
ConfiguredStore ==
    putString(putString(putString(EmptyStore, "ssid", SSID_A),
                        "password", <<"p">>),
              "trigger-url", HTTP_PREFIX \o <<"a">>)

BasicInputs == { <<>>, Line(<<"1">>), Line(<<"4">>), Line(<<"x">>) }

InitButton == \E st \in {EmptyStore, ConfiguredStore} : Boot(st, TRUE)

HandleMenuBasic == HandleMenuOn(BasicInputs)

LoopSerialBasic == LoopSerialOn(BasicInputs)

NextButton ==
    \/ Setup
    \/ ConnectPoll
    \/ ConnectReport
    \/ WiFiAssociates
    \/ HandleMenuBasic
    \/ ShowSettings
    \/ TriggerDoorbell
    \/ TriggerRetry
    \/ Return
    \/ LoopButton
    \/ LoopDebounce
    \/ LoopSerialBasic
    \/ Restart

SpecButton == InitButton /\ [][NextButton]_vars

----------------------------------------------------------------------------
(* Runs without power cycles in which the program keeps running: time      *)
(* advances and every platform call returns                                *)

\* the steps of the program itself
Program ==
    \/ Setup
    \/ ConnectPoll
    \/ ConnectReport
    \/ HandleMenu
    \/ ScanAndSelectNetwork
    \/ ConfigureWiFiSave
    \/ ConfigureWiFiConnect
    \/ ConfigureTriggerURL
    \/ ShowSettings
    \/ TriggerDoorbell
    \/ TriggerRetry
    \/ Return
    \/ LoopButton
    \/ LoopDebounce
    \/ LoopSerial

NextLive ==
    \/ Program
    \/ WiFiAssociates

\* power-up with the store a previous run left: never set up, or set up
InitLive == \E st \in {EmptyStore, ConfiguredStore} : Boot(st, FALSE)

SpecLive == InitLive /\ [][NextLive]_vars /\ WF_vars(Program)

----------------------------------------------------------------------------
(* Properties *)

HttpEffects == {"http_begin", "http_GET", "http_getString", "http_end"}

Count(seq, e) == Cardinality({i \in 1..Len(seq) : seq[i] = e})

NoneOf(seq, S) == \A i \in 1..Len(seq) : seq[i] \notin S

\* triggerDoorbell has been entered in the operation in progress
TriggerEntered == loc.statusAtCall # <<>>

\* ... and has returned to its caller
TriggerReturned == TriggerEntered /\ pc \in {"ret", "debounce"}

\* the value held under key, "" for a key never written
Held(st, key) == IF key \in DOMAIN st THEN st[key] ELSE <<>>

SameEntry(st1, st2, key) ==
    /\ (key \in DOMAIN st1) = (key \in DOMAIN st2)
    /\ key \in DOMAIN st1 => st1[key] = st2[key]

\* s begins with the characters of p
BeginsWith(s, p) ==
    /\ Len(p) <= Len(s)
    /\ \A i \in 1..Len(p) : s[i] = p[i]

\* C1: a call of triggerDoorbell that finds the status not connected returns
\* with no HTTP call made (no http.begin, no GET), whatever the trigger URL
C1_DisconnectedNoHttp ==
    (TriggerEntered /\ loc.statusAtCall[1] # "connected")
        => /\ pc \in {"ret", "debounce"}
           /\ NoneOf(fx, HttpEffects)
           /\ loc.codes = <<>>

C1_Witness ==
    /\ pc = "debounce"
    /\ TriggerEntered
    /\ loc.statusAtCall[1] = "idle"
    /\ Len(triggerURL) > 0

\* C2: connected and with a trigger URL, a returned triggerDoorbell has made
\* two GETs when the first code was <= 0 (also when the second was) and one
\* GET when the first code was > 0, whatever that code
C2_RetryOnce ==
    /\ (TriggerEntered /\ loc.statusAtCall[1] = "connected"
          /\ Len(triggerURL) > 0)
         => /\ Len(loc.codes) = Count(fx, "http_GET")
            /\ Len(loc.codes) \in {1, 2}
            /\ pc = "trig_retry" => Len(loc.codes) = 1 /\ loc.codes[1] <= 0
    /\ (TriggerReturned /\ loc.statusAtCall[1] = "connected"
          /\ Len(triggerURL) > 0)
         => Count(fx, "http_GET") = IF loc.codes[1] <= 0 THEN 2 ELSE 1

C2_Witness ==
    /\ TriggerReturned
    /\ loc.codes = <<0, -1>>
    /\ Count(fx, "http_GET") = 2

\* the samples that are high while the sample before them is low, the one
\* before the first being low
RisingEdges(seq) ==
    Cardinality({i \in 1..Len(seq) :
                    seq[i] /\ (IF i = 1 THEN TRUE ELSE ~seq[i - 1])})

\* C3: the calls of triggerDoorbell made by loop() are as many as the samples
\* that are high after a low one; a call decided but not yet entered counts
C3_CallsAreRisingEdges ==
    observing =>
        buttonCalls + (IF pc = "trigger" /\ caller = "button" THEN 1 ELSE 0)
            = RisingEdges(samples)

C3_Witness ==
    /\ samples = <<FALSE, FALSE, TRUE, TRUE, FALSE, TRUE>>
    /\ buttonCalls = 2
    /\ pc = "loop_serial"

\* C4: menu action 3 stores the line read and makes it the active URL iff it
\* is non-empty and begins with http:// or https://; otherwise both keep
\* the values they had
C4_UrlAcceptedIffValid ==
    (pc = "ret" /\ loc.choice = <<3>>) =>
        IF /\ loc.newURL # <<>>
           /\ \/ BeginsWith(loc.newURL, HTTP_PREFIX)
              \/ BeginsWith(loc.newURL, HTTPS_PREFIX)
        THEN /\ "trigger-url" \in DOMAIN store
             /\ store["trigger-url"] = loc.newURL
             /\ triggerURL = loc.newURL
        ELSE /\ SameEntry(store, entry[1].store, "trigger-url")
             /\ triggerURL = entry[1].triggerURL

C4_Witness ==
    /\ pc = "ret"
    /\ loc.choice = <<3>>
    /\ loc.newURL = HTTPS_PREFIX
    /\ entry[1].triggerURL = HTTP_PREFIX \o <<"a">>
    /\ triggerURL = HTTPS_PREFIX

\* the settings and the association are as the operation found them
AsEntered ==
    /\ store = entry[1].store
    /\ activeSSID = entry[1].activeSSID
    /\ activePassword = entry[1].activePassword
    /\ triggerURL = entry[1].triggerURL
    /\ wifiCred = entry[1].wifiCred
    /\ lastButtonState = entry[1].lastButtonState

\* C5: with N >= 1 networks found, a selection that parses to i in 1..N
\* gives the SSID at position i-1 (0-based); any other selection gives the
\* empty SSID and the action ends with store, settings and association as
\* they were
C5_SelectionByIndex ==
    (loc.scan # <<>> /\ loc.scan[1].n >= 1) =>
        LET sc == loc.scan[1]
            i == toInt(loc.reads[2].out)
        IN  IF i >= 1 /\ i <= sc.n
            THEN loc.newSSID = sc.ssids[i]   \* sequences count from 1
            ELSE /\ loc.newSSID = <<>>
                 /\ pc = "ret"
                 /\ AsEntered
                 /\ NoneOf(fx, {"wifi_disconnect", "wifi_begin", "put_ssid",
                                "put_password", "put_url"})

C5_Witness ==
    /\ loc.scan # <<>>
    /\ loc.scan[1].n = 3
    /\ loc.reads[2].out = <<"2">>
    /\ loc.newSSID = SSID_B
    /\ pc = "cfg_password"

\* C6: in the event loop the active SSID, password and trigger URL each
\* equal what the store holds under ssid, password and trigger-url
C6_ActiveMatchesStore ==
    pc \in {"loop", "loop_serial"} =>
        /\ activeSSID = Held(store, "ssid")
        /\ activePassword = Held(store, "password")
        /\ triggerURL = Held(store, "trigger-url")

\* C7: a read that ends by the timeout returns the empty string; a
\* non-empty string is returned only for a terminated non-empty line
C7_TimeoutGivesEmpty ==
    \A i \in 1..Len(loc.reads) :
        loc.reads[i].timedOut => loc.reads[i].out = <<>>

\* the reads of setup() return what was last written, "" for a key never
\* written; nothing is written between them and the first menu choice
StartupReads ==
    (inSetup /\ pc \in {"setup_poll", "setup_report", "menu"}) =>
        /\ activeSSID = Held(written, "ssid")
        /\ activePassword = Held(written, "password")
        /\ triggerURL = Held(written, "trigger-url")

C9_EndToEnd ==
    /\ (inSetup /\ pc = "menu" /\ store = EmptyStore) =>
         /\ NoneOf(fx, {"wifi_mode", "wifi_begin"})
         /\ wifiStatus = "idle"
    /\ (/\ loc.scan # <<>>
        /\ loc.scan[1].n = 3
        /\ toInt(loc.reads[2].out) = 2
        /\ loc.newPassword # <<>>) =>
         /\ pc \in {"cfg_connect", "cfg_poll", "cfg_report", "ret"}
         /\ store["ssid"] = loc.scan[1].ssids[2]
         /\ store["password"] = loc.newPassword
         /\ Count(fx, "wifi_begin") = IF pc = "cfg_connect" THEN 0 ELSE 1
         /\ \A i, j \in 1..Len(fx) :
               (fx[i] \in {"put_ssid", "put_password"} /\ fx[j] = "wifi_begin")
                   => i < j
    /\ (pc = "ret" /\ loc.shown # <<>> /\ lastConnect = "ok") =>
         /\ loc.shown[1].status = "Connected"
         /\ loc.shown[1].ip

C9_Witness ==
    /\ pc = "ret"
    /\ loc.shown # <<>>
    /\ loc.shown[1].status = "Connected"
    /\ loc.shown[1].ssid = SSID_B
    /\ store["password"] = <<"p">>
    /\ lastConnect = "ok"
    /\ activeSSID = <<>>

\* C10: a menu choice other than 1, 2, 3, 4 ends handleMenu with the store,
\* the settings in memory, the association and the last button sample as
\* they were, and with no scan, connect, store or HTTP call made
C10_InvalidChoiceNoEffect ==
    (pc = "ret" /\ loc.choice # <<>> /\ loc.choice[1] \notin {1, 2, 3, 4}) =>
        /\ AsEntered
        /\ fx = <<>>
        /\ loc.scan = <<>>
        /\ loc.codes = <<>>
        /\ loc.statusAtCall = <<>>
        /\ loc.shown = <<>>

C10_Witness ==
    /\ pc = "ret"
    /\ loc.choice = <<0>>
    /\ loc.reads[1].out = <<"x">>
    /\ Len(triggerURL) > 0
    /\ wifiStatus = "connected"

\* C11: once a connect loop has run out of polls and reported failure, and
\* until menu action 2 calls WiFi.begin again, the status is not connected,
\* no operation calls WiFi.begin, and a triggerDoorbell makes no HTTP call
C11_FailedStaysDisconnected ==
    (lastConnect = "failed" /\ pc \notin {"cfg_poll", "cfg_report"}) =>
        /\ wifiStatus # "connected"
        /\ Count(fx, "wifi_begin") > 0 =>
              \/ inSetup /\ pc = "menu"
              \/ pc = "ret" /\ loc.choice = <<2>>
        /\ TriggerEntered => NoneOf(fx, HttpEffects)

PollStates == {"setup_poll", "cfg_poll"}
ReportStates == {"setup_report", "cfg_report"}

\* C12: a connect loop, at startup or in menu action 2, waits at most 20
\* times: it waits again only when the status read is not connected, it can
\* always take its next step, it ends when the status read is connected or
\* after the 20th wait, and the report that follows tells the status it reads
C12_ConnectLoopBounded ==
    /\ [](/\ attempts \in 0..MaxAttempts
          /\ pc \in PollStates => ENABLED ConnectPoll
          /\ pc \in ReportStates => ENABLED ConnectReport)
    /\ [][/\ (pc \in PollStates /\ attempts' = attempts + 1)
                => (wifiStatus # "connected" /\ pc' = pc)
          /\ (pc \in PollStates /\ pc' \in ReportStates)
                => (wifiStatus = "connected" \/ attempts = MaxAttempts)
          /\ (pc \in PollStates /\ wifiStatus = "connected"
                /\ pc' \in PollStates)
                => UNCHANGED attempts
          /\ (pc \in ReportStates /\ pc' \in {"menu", "ret"})
                => lastConnect' = IF wifiStatus = "connected"
                                  THEN "ok" ELSE "failed"]_vars

C12_Witness ==
    /\ pc = "setup_report"
    /\ attempts = MaxAttempts
    /\ wifiStatus = "connecting"

\* C13: when the password read of menu action 2 returns nothing or ends by
\* the timeout, the action ends with nothing written and no disconnect or
\* connect made
C13_NoPasswordNothingWritten ==
    (/\ loc.choice = <<2>>
     /\ Len(loc.reads) = 3
     /\ loc.reads[3].out = <<>> \/ loc.reads[3].timedOut) =>
        /\ pc = "ret"
        /\ store = entry[1].store
        /\ NoneOf(fx, {"prefs_begin_rw", "put_ssid", "put_password",
                       "wifi_disconnect", "wifi_begin"})

\* the store after the calls of seq, from mode ("closed", "ro" or "rw"):
\* "bad" for an open while open, an access or a close while closed, a write
\* while read-only, or a blocking call (scan, connect, HTTP) while open
RECURSIVE PrefsWalk(_, _)
PrefsWalk(seq, mode) ==
    IF seq = <<>> THEN mode
    ELSE LET e == Head(seq) IN
         IF e \in {"prefs_begin_ro", "prefs_begin_rw"}
         THEN IF mode # "closed" THEN "bad"
              ELSE PrefsWalk(Tail(seq),
                             IF e = "prefs_begin_ro" THEN "ro" ELSE "rw")
         ELSE IF e = "prefs_end"
         THEN IF mode = "closed" THEN "bad" ELSE PrefsWalk(Tail(seq), "closed")
         ELSE IF e \in {"get_ssid", "get_password", "get_url"}
         THEN IF mode = "closed" THEN "bad" ELSE PrefsWalk(Tail(seq), mode)
         ELSE IF e \in {"put_ssid", "put_password", "put_url"}
         THEN IF mode # "rw" THEN "bad" ELSE PrefsWalk(Tail(seq), mode)
         ELSE IF mode # "closed" THEN "bad" ELSE PrefsWalk(Tail(seq), mode)

\* C14: the store is never opened while open, every open is closed again in
\* the same operation, and it is closed at every point where control is in
\* the event loop, a serial read, a connect loop or an HTTP call
C14_StoreScoped == PrefsWalk(fx, "closed") = "closed"

C14_Witness ==
    /\ pc = "cfg_poll"
    /\ attempts = 3
    /\ Count(fx, "prefs_begin_rw") = 1
    /\ Count(fx, "prefs_end") = 1

\* C15: handleMenu is entered once in setup, after the connect attempt has
\* been reported or skipped for want of an SSID, and setup returns only after
\* it; afterwards it is entered from the serial test of loop() exactly when
\* bytes are available there, once per iteration, the button sample of that
\* iteration having been handled
C15_ConsoleEntry ==
    /\ [](/\ (inSetup /\ pc = "menu") => loc.choice = <<>>
          /\ pc = "loop_serial" => (~inSetup /\ lastButtonState = buttonState))
    /\ [][/\ (pc # "menu" /\ pc' = "menu") =>
                \/ inSetup /\ pc = "setup_report"
                \/ inSetup /\ pc = "setup" /\ Len(activeSSID') = 0
                \/ ~inSetup /\ pc = "loop_serial" /\ Len(serialBuf') > 0
          /\ (pc = "setup" /\ pc' # "setup") => pc' \in {"setup_poll", "menu"}
          /\ (inSetup /\ ~inSetup') => (pc = "ret" /\ loc.choice # <<>>)
          /\ (pc = "loop_serial" /\ pc' \notin {"loop_serial", "setup"}) =>
                IF Len(serialBuf') > 0 THEN pc' = "menu" ELSE pc' = "loop"
          /\ (pc = "ret" /\ pc' # "ret") => pc' \in {"loop", "setup"}
          /\ (pc = "loop" /\ pc' \notin {"loop", "setup"}) =>
                pc' \in {"trigger", "loop_serial"}]_vars

C15_Witness ==
    /\ pc = "menu"
    /\ ~inSetup
    /\ Len(serialBuf) > 0
    /\ lastButtonState = TRUE

\* control is in loop(), outside triggerDoorbell and handleMenu
InLoop == pc \in {"loop", "loop_serial"}

\* C16: the program can always take its next step, and from setup, from
\* every menu interaction and from every triggerDoorbell control comes back
\* to the event loop, whatever is read and whatever fails
C16_ReturnsToLoop ==
    /\ [](ENABLED Program)
    /\ (~InLoop) ~> InLoop

\* back in loop() after the connect at start-up ran out of polls
C16_Witness ==
    /\ InLoop
    /\ lastConnect = "failed"
    /\ attempts = MaxAttempts
    /\ written = ConfiguredStore

\* C17: every GET goes to a URL that is not empty, begins with http:// or
\* https://, and is the one configureTriggerURL accepted last (the value
\* last written under "trigger-url"), also after power cycles
C17_GetTargetsAcceptedUrl ==
    /\ Count(fx, "http_GET") > 0 => loc.httpURL # <<>>
    /\ loc.httpURL # <<>> =>
          LET u == loc.httpURL[1] IN
          /\ Len(u) > 0
          /\ BeginsWith(u, HTTP_PREFIX) \/ BeginsWith(u, HTTPS_PREFIX)
          /\ "trigger-url" \in DOMAIN written
          /\ u = written["trigger-url"]

\* a GET by a button press after a power cycle (the credentials in use were
\* loaded by setup), to the URL the store holds
C17_Witness ==
    /\ pc = "debounce"
    /\ Count(fx, "http_GET") > 0
    /\ loc.httpURL = <<HTTPS_PREFIX>>
    /\ Len(activeSSID) > 0
    /\ Held(store, "trigger-url") = HTTPS_PREFIX

\* every a in seq comes before every b in seq
Before(seq, a, b) ==
    \A i, j \in 1..Len(seq) : (seq[i] = a /\ seq[j] = b) => i < j

\* configureWiFi is past its save: a network selected, a password read
PastSave ==
    \/ pc \in {"cfg_connect", "cfg_poll", "cfg_report"}
    \/ pc = "ret" /\ loc.choice = <<2>> /\ Len(loc.newPassword) > 0

\* C18: once configureWiFi has read a non-empty password for a selected
\* network, the store holds the new ssid and password, written before
\* WiFi.begin, and keeps them to the return of the operation, whether the
\* connect succeeded or ran out of its 20 polls
C18_SavedWhateverOutcome ==
    PastSave =>
       /\ Len(loc.newSSID) > 0
       /\ Held(store, "ssid") = loc.newSSID
       /\ Held(store, "password") = loc.newPassword
       /\ Count(fx, "put_ssid") = 1
       /\ Count(fx, "put_password") = 1
       /\ Before(fx, "put_ssid", "wifi_begin")
       /\ Before(fx, "put_password", "wifi_begin")
       /\ Before(fx, "prefs_end", "wifi_begin")
       /\ pc \in {"cfg_poll", "cfg_report", "ret"} => Count(fx, "wifi_begin") = 1

\* configureWiFi returns after 20 polls without a connection, the store
\* holding the new credentials in place of different older ones
C18_Witness ==
    /\ pc = "ret"
    /\ loc.choice = <<2>>
    /\ Len(loc.newPassword) > 0
    /\ lastConnect = "failed"
    /\ attempts = MaxAttempts
    /\ wifiStatus # "connected"
    /\ Held(entry[1].store, "ssid") # <<>>
    /\ Held(entry[1].store, "ssid") # loc.newSSID
    /\ Held(store, "ssid") = loc.newSSID

\* C19: in one triggerDoorbell http.begin is called at most once; http.end
\* is never called without it; while the retry is pending the client is open;
\* at the return http.end has been called once if http.begin was and not at
\* all otherwise, and a failed precondition means neither was called
C19_ClientPaired ==
    /\ Count(fx, "http_begin") <= 1
    /\ Count(fx, "http_end") <= Count(fx, "http_begin")
    /\ Before(fx, "http_begin", "http_end")
    /\ pc = "trig_retry" =>
          Count(fx, "http_begin") = 1 /\ Count(fx, "http_end") = 0
    /\ TriggerReturned =>
          /\ Count(fx, "http_end") = Count(fx, "http_begin")
          /\ Count(fx, "http_begin") = Len(loc.httpURL)
          /\ (loc.statusAtCall[1] # "connected" \/ Len(triggerURL) = 0) =>
                Count(fx, "http_begin") = 0

\* a call returned after two GETs that both failed in the transport
C19_Witness ==
    /\ TriggerReturned
    /\ loc.codes = <<-1, -1>>
    /\ Count(fx, "http_begin") = 1
    /\ Count(fx, "http_end") = 1

====
